---- MODULE Spec2Model ----
(***************************************************************************)
(* Process simulations extension: the consumption engine                   *)
(* (EnergySimulator), the silo engine (SiloSimulator) and the instance     *)
(* persistence layer (Persistor), modelled as state machines.              *)
(*                                                                         *)
(* Numbers.  The engines compute with IEEE doubles; the model computes     *)
(* the same expressions exactly and leaves the rounding of the doubles     *)
(* out, except where it decides a branch (DoubleLeq).  The sine of a       *)
(* multiple of PI / 6 is (a + b * sqrt(3)) / 2 with integers a and b, so a *)
(* consumption quantity is a number p + q * sqrt(3), held as [p, q] and    *)
(* counted in the unit 1 / (SECONDS_IN_YEAR * 5000).  Silo quantities are  *)
(* rationals [n, d] in lowest terms.  Math.random() is a draw r / 1000     *)
(* with r taken from RandomMilli.                                          *)
(***************************************************************************)
EXTENDS Integers, Sequences, FiniteSets, TLC

VARIABLES
    \* ---- EnergySimulator ----
    media,              \* media[m].annual, the constructor's configuration
    liveValues,         \* this.liveValues
    aggregatedValues,   \* this.aggregatedValues
    running,            \* this.running
    energyTimers,       \* number of live setInterval timers of the engine
    simulationInterval, \* state of the timer this.simulationInterval names
    energyTicks,        \* number of applied _updateValues calls
    energyOp,           \* the last operation executed on the engine
    energyResult,       \* outcome of the last getLiveValue / getAggregatedValue
    \* ---- SiloSimulator ----
    capacity,           \* this.capacity
    baseTimeToEmpty,    \* this.baseTimeToEmpty (ms)
    level,              \* this.level, a rational
    mode,               \* this.mode
    siloRunning,        \* this.running
    stepDown,           \* this.stepDown, a rational
    stepUp,             \* this.stepUp, a rational
    siloTimers,         \* number of live setInterval timers of the engine
    timer,              \* state of the timer this.timer names
    siloOp,             \* the last operation executed on the engine
    \* ---- Persistor, with the registry and the store it talks to ----
    storage,            \* the store: a function from the stored ids to records
    instances,          \* the registry: ids of the live instances
    handlers,           \* _init ran: 'create' and 'delete' handlers registered
    updateListeners,    \* the 'update' listeners attached by the 'create' handler
    pendingOps,         \* store writes and deletes issued and not yet settled
    pc,                 \* position of restore()
    ids,                \* restore's queue of ids
    trial,              \* restore's attempt counter
    current,            \* the id restore is working on (0: none)
    warnings,           \* what was logged with this._log.warn
    unhandledRejections,\* rejected promises nobody handles
    snapshot,           \* history: the ids keys() returned
    failedIds,          \* history: ids whose create threw during restore
    attempts,           \* history: number of create calls made by restore
    removeIssued,       \* history: ids restore called removeItem for
    storeFault,         \* history: a store operation failed
    storeReliable,      \* environment: the store never fails in this run
    createIssued,       \* history: ids a creation record write was issued for
    cleanupFailed,      \* history: ids whose cleanup removeItem failed
    brokenIds           \* environment: records whose recreation always throws

energyVars ==
    <<media, liveValues, aggregatedValues, running, energyTimers,
      simulationInterval, energyTicks, energyOp, energyResult>>

siloVars ==
    <<capacity, baseTimeToEmpty, level, mode, siloRunning, stepDown, stepUp,
      siloTimers, timer, siloOp>>

persistVars ==
    <<storage, instances, handlers, updateListeners, pendingOps, pc, ids,
      trial, current, warnings, unhandledRejections, snapshot, failedIds,
      attempts, removeIssued, storeFault, storeReliable, createIssued,
      cleanupFailed, brokenIds>>

vars ==
    <<energyVars, siloVars, persistVars>>

\* What an operation of one component leaves alone: the other components.
notEnergy == <<siloVars, persistVars>>

notSilo == <<energyVars, persistVars>>

notPersist == <<energyVars, siloVars>>

(***************************************************************************)
(* Bounds of the model.                                                    *)
(***************************************************************************)
MaxTicks == 2

MaxTimers == 3

\* Largest number of records in the store when restore() starts.
MaxRecords == 11

\* Largest number of unsettled store operations under live events.
MaxPending == 2

\* Largest number of records in the store when restore() starts over a store
\* that may fail.
MaxFaultyRecords == 3

\* Largest number of records in the store when restore() starts while live
\* lifecycle events arrive.
MaxLiveRecords == 1

\* Largest number of records in the store when the restore() without a
\* ceiling starts, and the value at which its count of attempts saturates.
MaxUnboundedRecords == 3

MaxUnboundedAttempts == 12

(***************************************************************************)
(* Inputs.                                                                 *)
(***************************************************************************)
\* Math.random() in thousandths; Math.random() is in [0, 1).
RandomMilli == {0, 999}

\* Wall-clock time of a tick: secondsIntoDay, at 0:00, 6:00, 12:00, 22:00 (the
\* times at which a channel is at the bottom of its daily cycle, and one more).
DayTimes == {0, 21600, 43200, 79200}

\* Constructor arguments { power, gas, water }: annual totals, kept small so
\* that every quantity of the model fits 32-bit integers.
EnergyConfigs ==
    { [power |-> 24, gas |-> 12, water |-> 3],
      [power |-> 0, gas |-> -12, water |-> 30] }

\* Math.random() in thousandths, as drawn by _setRandomEmptyingStep.
SiloRandomMilli == {0, 500, 999}

\* Constructor arguments { capacity, timeToEmpty } (timeToEmpty in seconds);
\* the first is the default.
SiloConfigs ==
    { [capacity |-> 100, timeToEmpty |-> 60],
      [capacity |-> 50, timeToEmpty |-> 1],
      [capacity |-> 7, timeToEmpty |-> 10] }

\* Instance ids, classes, constructor arguments and update payloads of the
\* live lifecycle events.
EventIds == {1, 2}

\* "Emitter" is the class of an instance that has an on method, to which the
\* 'create' handler attaches its update listener.
EventClasses == {"SiloSimulator", "Emitter"}

EventArgs == {<<"a1">>, <<"a2">>}

UpdateData == {"d1"}

\* Channel names passed to the getters: the three channels, names that are
\* no property of this.media, and names this.media inherits.
ChannelNames ==
    {"power", "gas", "water", "heat", "", "constructor", "__proto__"}

(***************************************************************************)
(* EnergySimulator                                                         *)
(***************************************************************************)
SECONDS_IN_YEAR == 365 * 24 * 3600

SECONDS_IN_DAY == 24 * 3600

MediaTypes == {"power", "gas", "water"}

Abs(x) == IF x < 0 THEN -x ELSE x

RECURSIVE Gcd(_, _)
Gcd(a, b) == IF b = 0 THEN a ELSE Gcd(b, a % b)

\* The number p + q * sqrt(3).
Surd(p, q) == [p |-> p, q |-> q]

SZero == Surd(0, 0)

SAdd(x, y) == Surd(x.p + y.p, x.q + y.q)

SSub(x, y) == Surd(x.p - y.p, x.q - y.q)

SScale(k, x) == Surd(k * x.p, k * x.q)

\* x >= 0.  With p and q of opposite signs, p + q * sqrt(3) has the sign of
\* p where p * p > 3 * q * q and the sign of q otherwise; the common divisor
\* is taken out first, which keeps the squares small.
SNonNeg(x) ==
    LET g == Gcd(Abs(x.p), Abs(x.q))
        p == IF g = 0 THEN 0 ELSE x.p \div g
        q == IF g = 0 THEN 0 ELSE x.q \div g
    IN  IF p >= 0 /\ q >= 0 THEN TRUE
        ELSE IF p <= 0 /\ q <= 0 THEN FALSE
        ELSE IF p > 0 THEN p * p > 3 * q * q
        ELSE 3 * q * q > p * p

SLeq(x, y) == SNonNeg(SSub(y, x))

\* Math.max(a, b)
Max(a, b) == IF SLeq(b, a) THEN a ELSE b

\* 2 * Math.sin(k * PI / 6): 0, 1, sqrt(3), 2, sqrt(3), 1, 0, -1, ...
Sin(k) ==
    LET ones  == <<0, 1, 0, 2, 0, 1, 0, -1, 0, -2, 0, -1>>
        roots == <<0, 0, 1, 0, 1, 0, 0, 0, -1, 0, -1, 0>>
    IN  Surd(ones[(k % 12) + 1], roots[(k % 12) + 1])

\* config.phaseShift in multiples of PI / 6.
PhaseShift(m) ==
    CASE m = "power" -> -3
      [] m = "gas"   -> -2
      [] m = "water" -> 3

\* config.amplitude in tenths.
Amplitude(m) ==
    CASE m = "power" -> 6
      [] m = "gas"   -> 5
      [] m = "water" -> 8

\* cycleFactor = Math.sin(secondsIntoDay * 2 * PI / secondsInDay + phaseShift),
\* doubled, for secondsIntoDay a multiple of two hours.
CycleFactor(m, secondsIntoDay) ==
    Sin((secondsIntoDay * 12) \div SECONDS_IN_DAY + PhaseShift(m))

\* noise = (Math.random() - 0.5) * 0.2, in five-thousandths.
Noise(r) == r - 500

\* consumptionThisSecond = avgPerSecond * (1 + cycleFactor * amplitude + noise)
\* with avgPerSecond = annual / SECONDS_IN_YEAR: in five-thousandths,
\* 1 is 5000 and cycleFactor * amplitude is 250 times the doubled sine times
\* the tenths of the amplitude.
ConsumptionThisSecond(annual, m, secondsIntoDay, r) ==
    SScale(annual,
           SAdd(Surd(5000 + Noise(r), 0),
                SScale(250 * Amplitude(m), CycleFactor(m, secondsIntoDay))))

\* Mutant: the Math.max(0, ...) clamp is left out.
ConsumptionUnclamped(annual, m, secondsIntoDay, r) ==
    ConsumptionThisSecond(annual, m, secondsIntoDay, r)

PositiveConsumption(annual, m, secondsIntoDay, r) ==
    Max(SZero, ConsumptionThisSecond(annual, m, secondsIntoDay, r))

\* liveValues[mediaType] = positiveConsumption * 3600
LiveRate(positiveConsumption) == SScale(3600, positiveConsumption)

\* Mutant: the total is assigned (=) where the code accumulates (+=).
UpdateValuesAssign(secondsIntoDay, rnd) ==
    /\ aggregatedValues' =
          [m \in MediaTypes |->
              PositiveConsumption(media[m].annual, m, secondsIntoDay, rnd[m])]
    /\ liveValues' =
          [m \in MediaTypes |->
              LiveRate(PositiveConsumption(media[m].annual, m, secondsIntoDay, rnd[m]))]

\* _updateValues: every channel is updated in one run of the loop.
UpdateValues(secondsIntoDay, rnd) ==
    /\ aggregatedValues' =
          [m \in MediaTypes |->
              SAdd(aggregatedValues[m],
                   PositiveConsumption(media[m].annual, m, secondsIntoDay,
                                       rnd[m]))]
    /\ liveValues' =
          [m \in MediaTypes |->
              LiveRate(PositiveConsumption(media[m].annual, m, secondsIntoDay, rnd[m]))]

\* The names every object literal inherits from Object.prototype.
ObjectPrototypeKeys ==
    { "constructor", "__proto__", "hasOwnProperty", "isPrototypeOf",
      "propertyIsEnumerable", "toLocaleString", "toString", "valueOf",
      "__defineGetter__", "__defineSetter__", "__lookupGetter__",
      "__lookupSetter__" }

\* _validateMediaType passes when this.media[mediaType] is truthy: for the
\* three configured channels and for every inherited property name.
ValidateMediaType(mediaType) ==
    mediaType \in MediaTypes \cup ObjectPrototypeKeys

NoResult == [call |-> "none", arg |-> "", kind |-> "none", value |-> SZero]

\* What a getter returns for a validated name: values[mediaType], which for
\* an inherited name is a member of Object.prototype and no number.
Lookup(call, values, mediaType) ==
    IF ~ValidateMediaType(mediaType)
    THEN [call |-> call, arg |-> mediaType, kind |-> "error",
          value |-> SZero]
    ELSE IF mediaType \in MediaTypes
    THEN [call |-> call, arg |-> mediaType, kind |-> "value",
          value |-> values[mediaType]]
    ELSE [call |-> call, arg |-> mediaType, kind |-> "inherited",
          value |-> SZero]

\* The state the constructor leaves, start() included.
EnergyInit ==
    /\ \E c \in EnergyConfigs :
          media = [m \in MediaTypes |-> [annual |-> c[m]]]
    /\ liveValues = [m \in MediaTypes |-> SZero]
    /\ aggregatedValues = [m \in MediaTypes |-> SZero]
    /\ running = TRUE
    /\ energyTimers = 1
    /\ simulationInterval = "live"
    /\ energyTicks = 0
    /\ energyOp = "new"
    /\ energyResult = NoResult

\* start(): sets the flag and creates a timer, whatever the state.
EnergyStart ==
    /\ energyOp # "none"
    /\ energyTimers < MaxTimers
    /\ running' = TRUE
    /\ energyTimers' = energyTimers + 1
    /\ simulationInterval' = "live"
    /\ energyOp' = "start"
    /\ UNCHANGED <<media, liveValues, aggregatedValues, energyTicks,
                   energyResult>>
    /\ UNCHANGED notEnergy

\* stop(): clears the timer this.simulationInterval names, and the flag.
EnergyStop ==
    /\ energyOp # "none"
    /\ energyTimers' =
          IF simulationInterval = "live" THEN energyTimers - 1 ELSE energyTimers
    /\ simulationInterval' = "cleared"
    /\ running' = FALSE
    /\ energyOp' = "stop"
    /\ UNCHANGED <<media, liveValues, aggregatedValues, energyTicks,
                   energyResult>>
    /\ UNCHANGED notEnergy

\* Mutant: the callback without its "if (!this.running) return".
EnergyTimerCallbackUnguarded(secondsIntoDay, rnd) ==
    /\ energyTicks < MaxTicks
    /\ UpdateValues(secondsIntoDay, rnd)
    /\ energyTicks' = energyTicks + 1
    /\ energyOp' = "tick"
    /\ UNCHANGED <<media, running, energyTimers, simulationInterval,
                   energyResult>>

\* The callback of one live timer.
EnergyTimerCallback(secondsIntoDay, rnd) ==
    IF ~running
    THEN /\ energyOp' = "skip"
         /\ UNCHANGED <<media, liveValues, aggregatedValues, running,
                        energyTimers, simulationInterval, energyTicks,
                        energyResult>>
    ELSE /\ energyTicks < MaxTicks
         /\ UpdateValues(secondsIntoDay, rnd)
         /\ energyTicks' = energyTicks + 1
         /\ energyOp' = "tick"
         /\ UNCHANGED <<media, running, energyTimers, simulationInterval,
                        energyResult>>

EnergyTick ==
    /\ energyTimers > 0
    /\ \E secondsIntoDay \in DayTimes, rnd \in [MediaTypes -> RandomMilli] :
          EnergyTimerCallback(secondsIntoDay, rnd)
    /\ UNCHANGED notEnergy

EnergyNext ==
    \/ EnergyStart
    \/ EnergyStop
    \/ EnergyTick

\* getLiveValue(mediaType)
GetLiveValue(mediaType) ==
    /\ energyOp # "none"
    /\ energyResult' = Lookup("getLiveValue", liveValues, mediaType)
    /\ energyOp' = "get"
    /\ UNCHANGED <<media, liveValues, aggregatedValues, running, energyTimers,
                   simulationInterval, energyTicks>>
    /\ UNCHANGED notEnergy

GetLiveValueCall == \E mediaType \in ChannelNames : GetLiveValue(mediaType)

\* getAggregatedValue(mediaType)
GetAggregatedValue(mediaType) ==
    /\ energyOp # "none"
    /\ energyResult' =
          Lookup("getAggregatedValue", aggregatedValues, mediaType)
    /\ energyOp' = "get"
    /\ UNCHANGED <<media, liveValues, aggregatedValues, running, energyTimers,
                   simulationInterval, energyTicks>>
    /\ UNCHANGED notEnergy

GetAggregatedValueCall ==
    \E mediaType \in ChannelNames : GetAggregatedValue(mediaType)

\* The engine with its getters.
EnergyQueryNext ==
    \/ EnergyStart
    \/ EnergyStop
    \/ EnergyTick
    \/ GetLiveValueCall
    \/ GetAggregatedValueCall

(***************************************************************************)
(* Rationals [n, d], d > 0, in lowest terms.                               *)
(***************************************************************************)
Rat(n, d) ==
    LET s == IF d < 0 THEN -1 ELSE 1
        g == Gcd(Abs(n), Abs(d))
    IN  [n |-> (s * n) \div g, d |-> (s * d) \div g]

RInt(i) == [n |-> i, d |-> 1]

Lcm(a, b) == (a \div Gcd(a, b)) * b

RAdd(a, b) ==
    LET l == Lcm(a.d, b.d)
    IN  Rat(a.n * (l \div a.d) + b.n * (l \div b.d), l)

RSub(a, b) ==
    LET l == Lcm(a.d, b.d)
    IN  Rat(a.n * (l \div a.d) - b.n * (l \div b.d), l)

RLeq(a, b) == a.n * b.d <= b.n * a.d

RMax(a, b) == IF RLeq(b, a) THEN a ELSE b

(***************************************************************************)
(* SiloSimulator                                                           *)
(***************************************************************************)
\* this.interval, the update interval in ms.
Interval == 1000

\* this.timeToRefill = this.baseTimeToEmpty / 10
TimeToRefill(base) == Rat(base, 10)

\* this.stepUp = this.capacity / (this.timeToRefill / this.interval)
StepUp(cap, base) ==
    LET ttr == TimeToRefill(base)
    IN  Rat(cap * Interval * ttr.d, ttr.n)

\* randomFactor = 1 + (Math.random() * 2 - 1) * variance, variance = 0.1,
\* in ten-thousandths.
\* Mutant: a variance of 0.2 for 0.1.
RandomFactorWide(r) == 10000 + (r * 2 - 1000) * 2

RandomFactor(r) == 10000 + (r * 2 - 1000)

\* _setRandomEmptyingStep: capacity / (adjustedTimeToEmpty / interval) with
\* adjustedTimeToEmpty = baseTimeToEmpty * randomFactor.
RandomEmptyingStep(cap, base, r) ==
    Rat(cap * Interval * 10000, base * RandomFactor(r))

\* this.capacity * 0.1
RefillThreshold(cap) == Rat(cap, 10)

\* The state the constructor leaves, start() included.
SiloInit ==
    /\ \E c \in SiloConfigs, r \in SiloRandomMilli :
          /\ capacity = c.capacity
          /\ baseTimeToEmpty = c.timeToEmpty * 1000
          /\ level = RInt(c.capacity)
          /\ stepDown = RandomEmptyingStep(c.capacity, c.timeToEmpty * 1000, r)
          /\ stepUp = StepUp(c.capacity, c.timeToEmpty * 1000)
    /\ mode = "emptying"
    /\ siloRunning = TRUE
    /\ siloTimers = 1
    /\ timer = "live"
    /\ siloOp = "new"

\* start(): sets the flag and creates a timer, whatever the state.
SiloStart ==
    /\ siloOp # "none"
    /\ siloTimers < MaxTimers
    /\ siloRunning' = TRUE
    /\ siloTimers' = siloTimers + 1
    /\ timer' = "live"
    /\ siloOp' = "start"
    /\ UNCHANGED <<capacity, baseTimeToEmpty, level, mode, stepDown, stepUp>>
    /\ UNCHANGED notSilo

\* stop(): clears the timer this.timer names, and the flag.
SiloStop ==
    /\ siloOp # "none"
    /\ siloTimers' = IF timer = "live" THEN siloTimers - 1 ELSE siloTimers
    /\ timer' = "cleared"
    /\ siloRunning' = FALSE
    /\ siloOp' = "stop"
    /\ UNCHANGED <<capacity, baseTimeToEmpty, level, mode, stepDown, stepUp>>
    /\ UNCHANGED notSilo

\* A comparison of two doubles, a <= b.  The code accumulates the level in
\* doubles, whose rounding the rationals do not carry: where the exact values
\* differ the doubles compare as they do, and where the exact values are
\* equal the rounding decides, so tie is either outcome.
DoubleLeq(a, b, tie) == IF a = b THEN tie ELSE RLeq(a, b)

\* Mutant: the emptying branch without Math.max(0, this.level).
EmptyingTickNoClamp(tie) ==
    LET lowered == RSub(level, stepDown)
    IN  IF DoubleLeq(lowered, RefillThreshold(capacity), tie)
        THEN /\ mode' = "refilling"
             /\ level' = lowered
             /\ UNCHANGED stepDown
        ELSE /\ level' = lowered
             /\ UNCHANGED <<mode, stepDown>>

\* The emptying branch of the timer callback; tie is the outcome of the
\* comparison when the level meets the threshold exactly.
EmptyingTick(tie) ==
    LET lowered == RSub(level, stepDown)
    IN  IF DoubleLeq(lowered, RefillThreshold(capacity), tie)
        THEN /\ mode' = "refilling"
             /\ level' = RMax(RInt(0), lowered)
             /\ UNCHANGED stepDown
        ELSE /\ level' = lowered
             /\ UNCHANGED <<mode, stepDown>>

\* Mutant: the refilling branch without this.level = this.capacity.
RefillingTickOvershoot(r, tie) ==
    LET raised == RAdd(level, stepUp)
    IN  IF DoubleLeq(RInt(capacity), raised, tie)
        THEN /\ mode' = "emptying"
             /\ level' = raised
             /\ stepDown' = RandomEmptyingStep(capacity, baseTimeToEmpty, r)
        ELSE /\ level' = raised
             /\ UNCHANGED <<mode, stepDown>>

\* The refilling branch of the timer callback; r is the draw of
\* _setRandomEmptyingStep.
RefillingTick(r, tie) ==
    LET raised == RAdd(level, stepUp)
    IN  IF DoubleLeq(RInt(capacity), raised, tie)
        THEN /\ mode' = "emptying"
             /\ level' = RInt(capacity)
             /\ stepDown' = RandomEmptyingStep(capacity, baseTimeToEmpty, r)
        ELSE /\ level' = raised
             /\ UNCHANGED <<mode, stepDown>>

\* The callback of one live timer.
SiloTimerCallback(r, tie) ==
    IF ~siloRunning
    THEN /\ siloOp' = "skip"
         /\ UNCHANGED <<capacity, baseTimeToEmpty, level, mode, siloRunning,
                        stepDown, stepUp, siloTimers, timer>>
    ELSE /\ IF mode = "emptying"
            THEN EmptyingTick(tie)
            ELSE RefillingTick(r, tie)
         /\ siloOp' = "tick"
         /\ UNCHANGED <<capacity, baseTimeToEmpty, siloRunning, stepUp,
                        siloTimers, timer>>

SiloTick ==
    /\ siloTimers > 0
    /\ \E r \in SiloRandomMilli, tie \in BOOLEAN : SiloTimerCallback(r, tie)
    /\ UNCHANGED notSilo

SiloNext ==
    \/ SiloStart
    \/ SiloStop
    \/ SiloTick

\* An engine that was never constructed.
EnergyIdle ==
    /\ media = [m \in MediaTypes |-> [annual |-> 0]]
    /\ liveValues = [m \in MediaTypes |-> SZero]
    /\ aggregatedValues = [m \in MediaTypes |-> SZero]
    /\ running = FALSE
    /\ energyTimers = 0
    /\ simulationInterval = "cleared"
    /\ energyTicks = 0
    /\ energyOp = "none"
    /\ energyResult = NoResult

SiloIdle ==
    /\ capacity = 0
    /\ baseTimeToEmpty = 0
    /\ level = RInt(0)
    /\ mode = "emptying"
    /\ siloRunning = FALSE
    /\ stepDown = RInt(0)
    /\ stepUp = RInt(0)
    /\ siloTimers = 0
    /\ timer = "cleared"
    /\ siloOp = "none"

(***************************************************************************)
(* Persistor                                                               *)
(***************************************************************************)
\* The ceiling of the restore loop: trial++ < 10.
TrialCeiling == 10

\* The classes the entry point registers with VrpcAdapter.
ClassNames == {"EnergySimulator", "SiloSimulator"}

\* obj.on: neither registered class defines or inherits an on method.  The
\* 'create' handler provides for instances that have one; "Emitter" names
\* the class of such an instance, which no entry point registers.
HasOn(className) == className \notin ClassNames

\* The record restore() finds for a stored id.
StoredRecord(id) ==
    [className |->
        IF id % 2 = 1 THEN "EnergySimulator" ELSE "SiloSimulator",
     args |-> <<id>>]

NoValue == [className |-> "", args |-> <<>>]

\* _persist(id, className, args): setItem(id, { className, args }).
SetItemOp(id, className, args, origin) ==
    [op |-> "setItem", id |-> id, origin |-> origin,
     value |-> [className |-> className, args |-> args]]

RemoveItemOp(id, origin) ==
    [op |-> "removeItem", id |-> id, origin |-> origin, value |-> NoValue]

\* this._storage.keys(): the stored ids, in ascending order.  restore() uses
\* the result as an array without awaiting it, so keys() is taken to return
\* the ids synchronously.
Keys(st) ==
    [i \in 1..Cardinality(DOMAIN st) |->
        CHOOSE x \in DOMAIN st :
            Cardinality({y \in DOMAIN st : y < x}) = i - 1]

\* setItem(id, value, { folder: className }): the store is the package
\* @heisenware/storage, which the sources only call.  The write is taken to
\* be an upsert keyed by id; the folder option of Persistor.js:95 has no
\* counterpart here, so what the store does with two writes of one id under
\* different folders is outside this model.
StoreSet(st, id, value) ==
    [k \in DOMAIN st \cup {id} |-> IF k = id THEN value ELSE st[k]]

\* removeItem(id): removing an absent id is no error.
StoreRemove(st, id) == [k \in DOMAIN st \ {id} |-> st[k]]

Range(q) == {q[i] : i \in 1..Len(q)}

\* The ids for which a creation record write is among the operations.
CreatesIn(ops) ==
    {ops[i].id : i \in {k \in 1..Len(ops) : ops[k].origin = "create"}}

\* Mutant: the 'create' handler attaches the listener and persists nothing.
CreateHandlerOpsNoPersist(ops, id, className, args) == ops

\* The 'create' handler of _init (persist, then attach the update listener),
\* as the operations it appends and the listeners it leaves.
CreateHandlerOps(ops, id, className, args) ==
    Append(ops, SetItemOp(id, className, args, "create"))

\* Mutant: the listener is attached without the test of obj.on.
CreateHandlerListenersAlways(ls, id, className) ==
    ls \cup {[id |-> id, className |-> className]}

CreateHandlerListeners(ls, id, className) ==
    IF HasOn(className)
    THEN ls \cup {[id |-> id, className |-> className]}
    ELSE ls

\* Mutant: the ceiling test off by one (<= for <).
LoopCondOffByOne(q, t) == Len(q) > 0 /\ t <= TrialCeiling

\* while (ids.length > 0 && trial++ < 10)
LoopCond(q, t) == Len(q) > 0 /\ t < TrialCeiling

\* trial++ is evaluated only when ids.length > 0 holds.
TrialAfterCond(q, t) == IF Len(q) > 0 THEN t + 1 ELSE t

\* ids.map(id => this._storage.removeItem(id)): one delete per queued id.
CleanupOps(q) == [i \in 1..Len(q) |-> RemoveItemOp(q[i], "cleanup")]

\* this._log.warn(`Deleting broken instance ${id}`): one warning per queued
\* id, logged before its removeItem is called.
DeletingWarnings(q) == {[msg |-> "deleting", id |-> q[i]] : i \in 1..Len(q)}

\* The loop test with what follows it up to the next await: the next getItem,
\* or the warnings and the deletes of the ids left in the queue.  ops are the
\* operations issued so far; deferred are the writes of a _persist that was
\* called before the loop test: _persist awaits this._isInitialized before it
\* calls setItem, so its write is issued when restore() reaches its await,
\* behind the deletes of the cleanup.
LoopHead(q, t, ops, deferred) ==
    IF LoopCond(q, t)
    THEN /\ pc' = "getItem"
         /\ current' = Head(q)
         /\ ids' = Tail(q)
         /\ trial' = TrialAfterCond(q, t)
         /\ pendingOps' = ops \o deferred
         /\ UNCHANGED <<removeIssued, warnings>>
    ELSE /\ pc' = IF Len(q) = 0 THEN "done" ELSE "cleanup"
         /\ current' = 0
         /\ ids' = q
         /\ trial' = TrialAfterCond(q, t)
         /\ warnings' = warnings \cup DeletingWarnings(q)
         /\ pendingOps' = (ops \o CleanupOps(q)) \o deferred
         /\ removeIssued' = removeIssued \cup Range(q)

\* restore() up to await this._init(): _init registers the handlers, and
\* restore() yields before it reads the keys.
RestoreCall ==
    /\ pc = "idle"
    /\ pc' = "init"
    /\ handlers' = TRUE
    /\ UNCHANGED <<storage, instances, updateListeners, pendingOps, ids, trial,
                   current, warnings, unhandledRejections, snapshot, failedIds,
                   attempts, removeIssued, storeFault, storeReliable,
                   createIssued, cleanupFailed, brokenIds>>
    /\ UNCHANGED notPersist

\* restore() resumes behind await this._init(): keys(), then the loop test,
\* up to the first await on the store.
KeysRead ==
    /\ pc = "init"
    /\ snapshot' = Keys(storage)
    /\ LoopHead(Keys(storage), 0, pendingOps, <<>>)
    /\ UNCHANGED <<storage, instances, handlers, updateListeners,
                   unhandledRejections, failedIds, attempts, storeFault,
                   storeReliable, createIssued,
                   cleanupFailed, brokenIds>>
    /\ UNCHANGED notPersist

\* keys() throws: restore() rejects, with the handlers of _init registered.
KeysFails ==
    /\ pc = "init"
    /\ ~storeReliable
    /\ pc' = "rejected"
    /\ storeFault' = TRUE
    /\ UNCHANGED <<storage, instances, handlers, updateListeners, pendingOps,
                   ids, trial,
                   current, warnings, unhandledRejections, snapshot, failedIds,
                   attempts, removeIssued, storeReliable, createIssued,
                   cleanupFailed, brokenIds>>
    /\ UNCHANGED notPersist

\* getItem(id) fails, or finds no record: restore() rejects.
GetItemFails ==
    /\ pc = "getItem"
    /\ ~storeReliable \/ current \notin DOMAIN storage
    /\ pc' = "rejected"
    /\ storeFault' = TRUE
    /\ UNCHANGED <<storage, instances, handlers, updateListeners, pendingOps,
                   ids, trial, current, warnings, unhandledRejections,
                   snapshot, failedIds, attempts, removeIssued, storeReliable, createIssued,
                   cleanupFailed, brokenIds>>
    /\ UNCHANGED notPersist

\* getItem(id) returns and agentInstance.create succeeds: the registry emits
\* 'create', the handler calls _persist, the loop goes on to its next await,
\* and then the setItem of _persist is issued.  For an id that is live
\* already the registry hands back the instance and emits nothing.
RecreateSucceeds ==
    /\ pc = "getItem"
    /\ current \in DOMAIN storage
    /\ LET rec == storage[current]
           emitted == handlers /\ current \notin instances
       IN  /\ instances' = instances \cup {current}
           /\ updateListeners' =
                 IF emitted
                 THEN CreateHandlerListeners(updateListeners, current,
                                             rec.className)
                 ELSE updateListeners
           /\ LoopHead(ids, trial, pendingOps,
                       IF emitted
                       THEN CreateHandlerOps(<<>>, current,
                                             rec.className, rec.args)
                       ELSE <<>>)
    /\ attempts' = attempts + 1
    /\ createIssued' = createIssued \cup CreatesIn(pendingOps')
    /\ UNCHANGED <<storage, handlers, unhandledRejections, snapshot,
                   failedIds, storeFault, storeReliable, cleanupFailed,
                   brokenIds>>
    /\ UNCHANGED notPersist

\* getItem(id) returns and agentInstance.create throws: warn, then wait.
RecreateFails ==
    /\ pc = "getItem"
    /\ current \in DOMAIN storage
    /\ pc' = "backoff"
    /\ warnings' = warnings \cup {[msg |-> "restore", id |-> current]}
    /\ failedIds' = failedIds \cup {current}
    /\ attempts' = attempts + 1
    /\ UNCHANGED <<storage, instances, handlers, updateListeners, pendingOps,
                   ids, trial, current, unhandledRejections, snapshot,
                   removeIssued, storeFault, storeReliable, createIssued,
                   cleanupFailed, brokenIds>>
    /\ UNCHANGED notPersist

\* The 500 ms wait ends: ids.push(id), then the loop test.
BackoffDone ==
    /\ pc = "backoff"
    /\ LoopHead(Append(ids, current), trial, pendingOps, <<>>)
    /\ UNCHANGED <<storage, instances, handlers, updateListeners,
                   unhandledRejections, snapshot, failedIds, attempts,
                   storeFault, storeReliable, createIssued,
                   cleanupFailed, brokenIds>>
    /\ UNCHANGED notPersist

\* Whether a cleanup delete is among the operations.
CleanupPending(ops) == \E i \in 1..Len(ops) : ops[i].origin = "cleanup"

\* Mutant: the promise of a failed setItem has no catch that logs.
StoreSettlesSilent(ok) ==
    LET o == Head(pendingOps)
        rest == Tail(pendingOps)
    IN  /\ pendingOps' = rest
        /\ storage' =
              IF ~ok THEN storage
              ELSE IF o.op = "setItem" THEN StoreSet(storage, o.id, o.value)
              ELSE StoreRemove(storage, o.id)
        /\ storeFault' = (storeFault \/ ~ok)
        /\ warnings' =
              IF ok \/ o.op = "setItem" THEN warnings
              ELSE IF o.origin = "cleanup" /\ pc = "cleanup"
                   THEN warnings \cup {[msg |-> "cleanup", id |-> 0]}
              ELSE warnings
        /\ unhandledRejections' =
              IF ~ok /\ o.op = "removeItem" /\ o.origin = "delete"
              THEN unhandledRejections \cup {o.id}
              ELSE unhandledRejections
        /\ cleanupFailed' =
              IF ~ok /\ o.origin = "cleanup"
              THEN cleanupFailed \cup {o.id}
              ELSE cleanupFailed
        /\ pc' =
              IF pc = "cleanup" /\ o.origin = "cleanup"
                 /\ (~ok \/ ~CleanupPending(rest))
              THEN "done"
              ELSE pc

\* The store settles its oldest operation, with success or with failure, and
\* the continuation attached to that promise runs.
\*   setItem  (create, update): .catch logs a warning.
\*   removeItem (delete): nothing is attached to the promise of _delete.
\*   removeItem (cleanup): Promise.all resolves after the last success and
\*   rejects at the first failure, which restore() catches and logs.
StoreSettles(ok) ==
    LET o == Head(pendingOps)
        rest == Tail(pendingOps)
    IN  /\ pendingOps' = rest
        /\ storage' =
              IF ~ok THEN storage
              ELSE IF o.op = "setItem" THEN StoreSet(storage, o.id, o.value)
              ELSE StoreRemove(storage, o.id)
        /\ storeFault' = (storeFault \/ ~ok)
        /\ warnings' =
              IF ok THEN warnings
              ELSE IF o.op = "setItem"
                   THEN warnings \cup {[msg |-> o.origin, id |-> o.id]}
              ELSE IF o.origin = "cleanup" /\ pc = "cleanup"
                   THEN warnings \cup {[msg |-> "cleanup", id |-> 0]}
              ELSE warnings
        /\ unhandledRejections' =
              IF ~ok /\ o.op = "removeItem" /\ o.origin = "delete"
              THEN unhandledRejections \cup {o.id}
              ELSE unhandledRejections
        /\ cleanupFailed' =
              IF ~ok /\ o.origin = "cleanup"
              THEN cleanupFailed \cup {o.id}
              ELSE cleanupFailed
        /\ pc' =
              IF pc = "cleanup" /\ o.origin = "cleanup"
                 /\ (~ok \/ ~CleanupPending(rest))
              THEN "done"
              ELSE pc

StoreSettle ==
    /\ Len(pendingOps) > 0
    /\ \E ok \in (IF storeReliable THEN {TRUE} ELSE BOOLEAN) : StoreSettles(ok)
    /\ UNCHANGED <<instances, handlers, updateListeners, ids, trial, current,
                   snapshot, failedIds, attempts, removeIssued, storeReliable,
                   createIssued, brokenIds>>
    /\ UNCHANGED notPersist

RestoreNext ==
    \/ RestoreCall
    \/ KeysRead
    \/ RecreateSucceeds
    \/ RecreateFails
    \/ BackoffDone
    \/ StoreSettle

\* restore() over a store whose operations may fail.
FaultyRestoreNext ==
    \/ RestoreCall
    \/ KeysRead
    \/ KeysFails
    \/ GetItemFails
    \/ RecreateSucceeds
    \/ RecreateFails
    \/ BackoffDone
    \/ StoreSettle

\* A process that has just created its Persistor over a store of n records;
\* the store works throughout the run.
RestoreInit ==
    /\ \E n \in 0..MaxRecords : storage = [id \in 1..n |-> StoredRecord(id)]
    /\ instances = {}
    /\ handlers = FALSE
    /\ updateListeners = {}
    /\ pendingOps = <<>>
    /\ pc = "idle"
    /\ ids = <<>>
    /\ trial = 0
    /\ current = 0
    /\ warnings = {}
    /\ unhandledRejections = {}
    /\ snapshot = <<>>
    /\ failedIds = {}
    /\ attempts = 0
    /\ removeIssued = {}
    /\ storeFault = FALSE
    /\ storeReliable = TRUE
    /\ createIssued = {}
    /\ cleanupFailed = {}
    /\ brokenIds = {}

\* A process that has just created its Persistor over a store of n records;
\* the store may fail at any operation.
FaultyRestoreInit ==
    /\ \E n \in 0..MaxFaultyRecords :
           storage = [id \in 1..n |-> StoredRecord(id)]
    /\ instances = {}
    /\ handlers = FALSE
    /\ updateListeners = {}
    /\ pendingOps = <<>>
    /\ pc = "idle"
    /\ ids = <<>>
    /\ trial = 0
    /\ current = 0
    /\ warnings = {}
    /\ unhandledRejections = {}
    /\ snapshot = <<>>
    /\ failedIds = {}
    /\ attempts = 0
    /\ removeIssued = {}
    /\ storeFault = FALSE
    /\ storeReliable = FALSE
    /\ createIssued = {}
    /\ cleanupFailed = {}
    /\ brokenIds = {}

(***************************************************************************)
(* Persistor, the variant whose restore() has no ceiling and no cleanup.   *)
(***************************************************************************)
\* Mutant: the loop test with the ceiling of the other variant.
UnboundedLoopCondCeiling(q) == Len(q) > 0 /\ attempts < TrialCeiling

\* while (ids.length > 0)
UnboundedLoopCond(q) == Len(q) > 0

\* The loop test with what follows it up to the next await.
UnboundedLoopHead(q, ops) ==
    IF UnboundedLoopCond(q)
    THEN /\ pc' = "getItem"
         /\ current' = Head(q)
         /\ ids' = Tail(q)
         /\ pendingOps' = ops
    ELSE /\ pc' = "done"
         /\ current' = 0
         /\ ids' = q
         /\ pendingOps' = ops

\* The count of create calls, which stops counting at MaxUnboundedAttempts.
AttemptCounted ==
    IF attempts < MaxUnboundedAttempts THEN attempts + 1 ELSE attempts

\* restore() up to its await on keys(): _init registers the handlers.
UnboundedRestoreCall ==
    /\ pc = "idle"
    /\ handlers' = TRUE
    /\ pc' = "keys"
    /\ UNCHANGED <<storage, instances, updateListeners, pendingOps, ids, trial,
                   current, warnings, unhandledRejections, snapshot, failedIds,
                   attempts, removeIssued, storeFault, storeReliable,
                   createIssued, cleanupFailed, brokenIds>>
    /\ UNCHANGED notPersist

\* keys() returns: the queue is filled and the loop is entered.
UnboundedKeysReturn ==
    /\ pc = "keys"
    /\ snapshot' = Keys(storage)
    /\ UnboundedLoopHead(Keys(storage), pendingOps)
    /\ UNCHANGED <<storage, instances, handlers, updateListeners, trial,
                   warnings, unhandledRejections, failedIds, attempts,
                   removeIssued, storeFault, storeReliable, createIssued,
                   cleanupFailed, brokenIds>>
    /\ UNCHANGED notPersist

\* getItem(id) returns and agentInstance.create succeeds: the 'create'
\* handler persists the record, the loop goes on.
UnboundedRecreateSucceeds ==
    /\ pc = "getItem"
    /\ current \in DOMAIN storage
    /\ current \notin brokenIds
    /\ LET rec == storage[current]
       IN  /\ instances' = instances \cup {current}
           /\ updateListeners' =
                 CreateHandlerListeners(updateListeners, current, rec.className)
           /\ UnboundedLoopHead(ids, CreateHandlerOps(pendingOps, current,
                                                      rec.className, rec.args))
    /\ attempts' = AttemptCounted
    /\ createIssued' = createIssued \cup CreatesIn(pendingOps')
    /\ UNCHANGED <<storage, handlers, trial, warnings, unhandledRejections,
                   snapshot, failedIds, removeIssued, storeFault, storeReliable,
                   cleanupFailed, brokenIds>>
    /\ UNCHANGED notPersist

\* getItem(id) returns and agentInstance.create throws: warn, ids.push(id),
\* and the loop goes on at once.
UnboundedRecreateFails ==
    /\ pc = "getItem"
    /\ current \in DOMAIN storage
    /\ warnings' = warnings \cup {[msg |-> "restore", id |-> current]}
    /\ failedIds' = failedIds \cup {current}
    /\ attempts' = AttemptCounted
    /\ UnboundedLoopHead(Append(ids, current), pendingOps)
    /\ UNCHANGED <<storage, instances, handlers, updateListeners, trial,
                   unhandledRejections, snapshot, removeIssued, storeFault,
                   storeReliable, createIssued, cleanupFailed, brokenIds>>
    /\ UNCHANGED notPersist

UnboundedRestoreNext ==
    \/ UnboundedRestoreCall
    \/ UnboundedKeysReturn
    \/ UnboundedRecreateSucceeds
    \/ UnboundedRecreateFails
    \/ StoreSettle

\* A process that has just created its Persistor over a store of n records,
\* of which those of brokenIds can never be recreated.
UnboundedRestoreInit ==
    /\ \E n \in 0..MaxUnboundedRecords :
           storage = [id \in 1..n |-> StoredRecord(id)]
    /\ brokenIds \in SUBSET (DOMAIN storage)
    /\ instances = {}
    /\ handlers = FALSE
    /\ updateListeners = {}
    /\ pendingOps = <<>>
    /\ pc = "idle"
    /\ ids = <<>>
    /\ trial = 0
    /\ current = 0
    /\ warnings = {}
    /\ unhandledRejections = {}
    /\ snapshot = <<>>
    /\ failedIds = {}
    /\ attempts = 0
    /\ removeIssued = {}
    /\ storeFault = FALSE
    /\ storeReliable = TRUE
    /\ createIssued = {}
    /\ cleanupFailed = {}

(***************************************************************************)
(* Persistor under live events.                                            *)
(***************************************************************************)
\* A process that has just created its Persistor over a store of n records,
\* with the agent serving: lifecycle events arrive while restore() runs.
LiveRestoreInit ==
    /\ \E n \in 0..MaxLiveRecords :
           storage = [id \in 1..n |-> StoredRecord(id)]
    /\ instances = {}
    /\ handlers = FALSE
    /\ updateListeners = {}
    /\ pendingOps = <<>>
    /\ pc = "idle"
    /\ ids = <<>>
    /\ trial = 0
    /\ current = 0
    /\ warnings = {}
    /\ unhandledRejections = {}
    /\ snapshot = <<>>
    /\ failedIds = {}
    /\ attempts = 0
    /\ removeIssued = {}
    /\ storeFault = FALSE
    /\ storeReliable = TRUE
    /\ createIssued = {}
    /\ cleanupFailed = {}
    /\ brokenIds = {}

\* The registry creates an instance and emits 'create': the handler persists
\* the record and, if the instance has an on method, attaches the listener.
Created(id, className, args) ==
    /\ handlers
    /\ id \notin instances
    /\ Len(pendingOps) < MaxPending
    /\ instances' = instances \cup {id}
    /\ pendingOps' = CreateHandlerOps(pendingOps, id, className, args)
    /\ updateListeners' = CreateHandlerListeners(updateListeners, id, className)
    /\ createIssued' = createIssued \cup CreatesIn(pendingOps')
    /\ UNCHANGED <<storage, handlers, pc, ids, trial, current, warnings,
                   unhandledRejections, snapshot, failedIds, attempts,
                   removeIssued, storeFault, storeReliable, cleanupFailed,
                   brokenIds>>
    /\ UNCHANGED notPersist

CreatedEvent ==
    \E id \in EventIds, className \in EventClasses, args \in EventArgs :
        Created(id, className, args)

\* The registry deletes an instance and emits 'delete': the handler calls
\* _delete and drops the promise.  The update listener stays attached.
Deleted(id) ==
    /\ handlers
    /\ id \in instances
    /\ Len(pendingOps) < MaxPending
    /\ instances' = instances \ {id}
    /\ pendingOps' = Append(pendingOps, RemoveItemOp(id, "delete"))
    /\ UNCHANGED <<storage, handlers, updateListeners, pc, ids, trial, current,
                   warnings, unhandledRejections, snapshot, failedIds,
                   attempts, removeIssued, storeFault, storeReliable, createIssued,
                   cleanupFailed, brokenIds>>
    /\ UNCHANGED notPersist

DeletedEvent == \E id \in EventIds : Deleted(id)

\* An object the listener of the 'create' handler is attached to emits
\* 'update': _persist(instance, className, [data]).
Updated(l, data) ==
    /\ Len(pendingOps) < MaxPending
    /\ pendingOps' =
          Append(pendingOps, SetItemOp(l.id, l.className, <<data>>, "update"))
    /\ UNCHANGED <<storage, instances, handlers, updateListeners, pc, ids,
                   trial, current, warnings, unhandledRejections, snapshot,
                   failedIds, attempts, removeIssued, storeFault,
                   storeReliable, createIssued,
                   cleanupFailed, brokenIds>>
    /\ UNCHANGED notPersist

UpdatedEvent ==
    \E l \in updateListeners, data \in UpdateData : Updated(l, data)

EventsNext ==
    \/ CreatedEvent
    \/ DeletedEvent
    \/ UpdatedEvent
    \/ StoreSettle

\* restore() with the agent serving: between the awaits of restore() the
\* handlers of _init run for the events of remote callers.
LiveRestoreNext ==
    \/ RestoreCall
    \/ KeysRead
    \/ GetItemFails
    \/ RecreateSucceeds
    \/ RecreateFails
    \/ BackoffDone
    \/ CreatedEvent
    \/ DeletedEvent
    \/ UpdatedEvent
    \/ StoreSettle

\* A process whose restore() found an empty store and returned.
EventsInit ==
    /\ storage = <<>>
    /\ instances = {}
    /\ handlers = TRUE
    /\ updateListeners = {}
    /\ pendingOps = <<>>
    /\ pc = "done"
    /\ ids = <<>>
    /\ trial = 0
    /\ current = 0
    /\ warnings = {}
    /\ unhandledRejections = {}
    /\ snapshot = <<>>
    /\ failedIds = {}
    /\ attempts = 0
    /\ removeIssued = {}
    /\ storeFault = FALSE
    /\ storeReliable \in BOOLEAN
    /\ createIssued = {}
    /\ cleanupFailed = {}
    /\ brokenIds = {}

\* No Persistor was created.
PersistIdle ==
    /\ storage = <<>>
    /\ instances = {}
    /\ handlers = FALSE
    /\ updateListeners = {}
    /\ pendingOps = <<>>
    /\ pc = "none"
    /\ ids = <<>>
    /\ trial = 0
    /\ current = 0
    /\ warnings = {}
    /\ unhandledRejections = {}
    /\ snapshot = <<>>
    /\ failedIds = {}
    /\ attempts = 0
    /\ removeIssued = {}
    /\ storeFault = FALSE
    /\ storeReliable = TRUE
    /\ createIssued = {}
    /\ cleanupFailed = {}
    /\ brokenIds = {}

(***************************************************************************)
(* Specifications.                                                         *)
(***************************************************************************)
InitEnergy == EnergyInit /\ SiloIdle /\ PersistIdle

InitSilo == SiloInit /\ EnergyIdle /\ PersistIdle

InitRestore == RestoreInit /\ EnergyIdle /\ SiloIdle

InitEvents == EventsInit /\ EnergyIdle /\ SiloIdle

InitRestoreFaulty == FaultyRestoreInit /\ EnergyIdle /\ SiloIdle

InitRestoreLive == LiveRestoreInit /\ EnergyIdle /\ SiloIdle

InitRestoreUnbounded == UnboundedRestoreInit /\ EnergyIdle /\ SiloIdle

InitEngines == InitEnergy \/ InitSilo

EnginesNext == EnergyNext \/ SiloNext

\* One consumption engine.
SpecEnergy == InitEnergy /\ [][EnergyNext]_vars

\* One consumption engine and the calls of its getters.
SpecEnergyQueries == InitEnergy /\ [][EnergyQueryNext]_vars

\* One silo engine.  A live interval timer keeps firing.
SpecSilo == InitSilo /\ [][SiloNext]_vars /\ WF_vars(SiloTick)

\* One engine of either class.
SpecEngines == InitEngines /\ [][EnginesNext]_vars

\* The Persistor under live lifecycle events, restore() done.
SpecEvents == InitEvents /\ [][EventsNext]_vars

\* restore() over a working store.  The store answers and the backoff timer
\* fires: a step that stays possible is taken.
SpecRestore == InitRestore /\ [][RestoreNext]_vars /\ WF_vars(RestoreNext)

\* restore() over a store that may fail.
SpecRestoreFaulty ==
    InitRestoreFaulty /\ [][FaultyRestoreNext]_vars /\ WF_vars(FaultyRestoreNext)

\* restore() while live lifecycle events arrive, over a working store.
SpecRestoreLive ==
    InitRestoreLive /\ [][LiveRestoreNext]_vars /\ WF_vars(LiveRestoreNext)

\* The restore() without ceiling over a working store.  The store answers,
\* and a record that is not broken is recreated at some attempt.
SpecRestoreUnbounded ==
    /\ InitRestoreUnbounded
    /\ [][UnboundedRestoreNext]_vars
    /\ WF_vars(UnboundedRestoreNext)
    /\ SF_vars(UnboundedRecreateSucceeds)

(***************************************************************************)
(* Properties.                                                             *)
(***************************************************************************)
\* The records restore() found that never failed to recreate.
ValidRecords == Range(snapshot) \ failedIds

\* C1: when restore() has finished over a working store in which every
\* record either always or never fails to recreate, exactly the records that
\* never failed are recreated and still stored, and exactly the failing ones
\* are removed.
RestoreOutcome ==
    (/\ pc = "done"
     /\ ~storeFault
     /\ instances \cap failedIds = {}
     /\ Cardinality(failedIds) <= TrialCeiling)
        => (/\ instances = ValidRecords
            /\ DOMAIN storage = ValidRecords)

\* The same outcome for the stores of at most TrialCeiling records.
RestoreOutcomeSmallStore ==
    Len(snapshot) <= TrialCeiling => RestoreOutcome

\* C2 (state part): restore() never makes more than 10 recreate attempts,
\* and when it has returned every id of the key snapshot was recreated or had
\* removeItem issued for it.
RestoreBounded ==
    /\ attempts <= TrialCeiling
    /\ pc = "done" =>
          \A id \in Range(snapshot) : id \in instances \/ id \in removeIssued

\* A natural number that every step of restore() and of the store lowers:
\* the loop tests left, then the unsettled store operations, then the
\* position within an iteration.
RestoreMeasure ==
    (2 * MaxRecords + 10) * (TrialCeiling + 1 - trial)
      + 2 * Len(pendingOps)
      + (CASE pc = "idle" -> 6
           [] pc = "init" -> 5
           [] pc = "getItem" -> 4
           [] pc = "backoff" -> 3
           [] pc = "cleanup" -> 1
           [] OTHER -> 0)

\* C2: restore() terminates after at most 10 recreate attempts, every id of
\* the key snapshot recreated or handed to removeItem: the bound and the
\* final state hold, every step lowers a measure that never falls below 0,
\* and restore() returns.
RestoreTerminates ==
    /\ []RestoreBounded
    /\ [](RestoreMeasure >= 0)
    /\ [][RestoreMeasure' < RestoreMeasure]_vars
    /\ <>(pc = "done")

\* C2 witness: restore() returned with the ceiling reached, some records
\* recreated and the others handed to removeItem.
RestoreCeilingReached ==
    /\ pc = "done"
    /\ attempts = TrialCeiling
    /\ instances # {}
    /\ removeIssued # {}
    /\ failedIds # {}

\* C3: at most one live timer applies the tick update of an engine.
SingleTickSource ==
    /\ running => energyTimers <= 1
    /\ siloRunning => siloTimers <= 1

\* C4: the silo level stays within [0, capacity].
SiloLevelBounds ==
    siloOp # "none" => RLeq(RInt(0), level) /\ RLeq(level, RInt(capacity))

\* C4 witness: the tick that changed the mode clamped the level at 0.
SiloClampedAtZero ==
    /\ siloOp = "tick"
    /\ mode = "refilling"
    /\ level = RInt(0)

\* The level lies strictly below the tenth of the capacity at which the
\* engine turns to refilling.
BelowThreshold(l) ==
    RLeq(l, RefillThreshold(capacity)) /\ l # RefillThreshold(capacity)

\* C5 (steps): an emptying engine holds a tenth of the capacity or more and
\* turns to refilling on exactly the step that brings the level to a tenth
\* or less, where a level that meets the tenth exactly falls on the side the
\* rounding of the doubles puts it; a refilling engine stays refilling below
\* the capacity, and the step from refilling to emptying leaves
\* level = capacity.
SiloTransitionStep ==
    /\ mode = "emptying" =>
          /\ ~BelowThreshold(level)
          /\ mode' = "refilling" => RLeq(level', RefillThreshold(capacity))
          /\ BelowThreshold(level') => mode' = "refilling"
    /\ (mode = "refilling" /\ mode' = "emptying") => level' = RInt(capacity)
    /\ (mode = "refilling" /\ mode' = "refilling") =>
          RLeq(level', RInt(capacity))

\* C5: the transitions happen at the stated levels, and while the engine
\* keeps running the two modes alternate forever.
SiloModesAlternate ==
    /\ [][SiloTransitionStep]_vars
    /\ <>[]siloRunning =>
          ([]<>(mode = "emptying") /\ []<>(mode = "refilling"))

\* C5 witness: a tick brought the engine back to emptying, at full level.
SiloCycleCompleted ==
    /\ siloOp = "tick"
    /\ mode = "emptying"
    /\ level = RInt(capacity)

\* C6: every accumulated total starts at 0 and no step lowers it.
ConsumptionMonotone ==
    /\ \A m \in MediaTypes : aggregatedValues[m] = SZero
    /\ [][\A m \in MediaTypes :
              SLeq(aggregatedValues[m], aggregatedValues'[m])]_vars

\* C6 witness: two ticks were applied, the engine was stopped and started in
\* between or after, and a total grew.
ConsumptionAccumulated ==
    /\ energyTicks = 2
    /\ energyOp = "start"
    /\ \E m \in MediaTypes : ~SLeq(aggregatedValues[m], SZero)

\* C7: every live rate is >= 0, and a tick leaves each live rate at 3600
\* times what it added to the total of the same channel.
ConsumptionNonNegative ==
    /\ [](\A m \in MediaTypes : SNonNeg(liveValues[m]))
    /\ [][energyTicks' # energyTicks =>
            \A m \in MediaTypes :
                liveValues'[m] =
                    SScale(3600, SSub(aggregatedValues'[m],
                                      aggregatedValues[m]))]_vars

\* C7 witness: a tick clamped a negative consumption to 0 on one channel
\* and produced a positive rate on another.
ConsumptionClamped ==
    /\ energyOp = "tick"
    /\ \E m \in MediaTypes : media[m].annual < 0 /\ liveValues[m] = SZero
    /\ \E m \in MediaTypes : ~SLeq(liveValues[m], SZero)

\* C8: a step that leaves an engine stopped changes none of its simulated
\* values, and stop() on a stopped engine changes nothing of its timers.
StopHaltsTicking ==
    /\ [][~running' =>
            UNCHANGED <<liveValues, aggregatedValues>>]_vars
    /\ [][~siloRunning' =>
            UNCHANGED <<level, mode, stepDown>>]_vars
    /\ [][(~running /\ ~running') =>
            UNCHANGED <<energyTimers, simulationInterval>>]_vars
    /\ [][(~siloRunning /\ ~siloRunning') =>
            UNCHANGED <<siloTimers, timer>>]_vars

\* C8 witness: the callback of a leaked timer ran on a stopped consumption
\* engine that had accumulated consumption.
LeakedTimerSkipped ==
    /\ energyOp = "skip"
    /\ ~running
    /\ energyTimers > 0
    /\ \E m \in MediaTypes : ~SLeq(aggregatedValues[m], SZero)

\* C9: with no store operation pending and none failed, the stored ids are
\* the ids of the live instances.
StoreMatchesRegistry ==
    (pendingOps = <<>> /\ ~storeFault) => DOMAIN storage = instances

\* C10: a failing removeItem of the 'delete' handler never surfaces as an
\* unhandled rejection.
DeletionFailureContained == unhandledRejections = {}

\* A step in which the store settles a setItem that does not land: the
\* oldest operation is a write, it leaves the queue, and the store is not
\* what the write would have made it.
SetItemFailedStep ==
    /\ pendingOps # <<>>
    /\ pendingOps' = Tail(pendingOps)
    /\ Head(pendingOps).op = "setItem"
    /\ storage' = storage
    /\ storage # StoreSet(storage, Head(pendingOps).id, Head(pendingOps).value)

\* C11: a setItem that fails for a created or an update event is caught and
\* logged with the event and the id, and it changes neither the registry nor
\* the update listeners nor the unhandled rejections; the handlers stay
\* registered throughout.
WriteFailureContained ==
    /\ [][SetItemFailedStep =>
            /\ [msg |-> Head(pendingOps).origin, id |-> Head(pendingOps).id]
                   \in warnings'
            /\ UNCHANGED <<instances, updateListeners, unhandledRejections,
                           handlers>>]_vars
    /\ []handlers

\* C11 witness: the creation write of instance 1 failed and was logged; the
\* instance is live with its listener, a later update of it and the creation
\* of instance 2 were persisted.
WriteFailureSurvived ==
    /\ [msg |-> "create", id |-> 1] \in warnings
    /\ 1 \in instances
    /\ [id |-> 1, className |-> "Emitter"] \in updateListeners
    /\ 1 \in DOMAIN storage
    /\ storage[1].args = <<"d1">>
    /\ 2 \in DOMAIN storage
    /\ 2 \in instances
    /\ unhandledRejections = {}

\* C12: no failure of a store read, of a recreate call or of a store delete
\* makes restore() reject to its caller.
RestoreContainsErrors == pc # "rejected"

\* The warnings logged by the catch around the cleanup deletes.
CleanupWarnings == {w \in warnings : w.msg = "cleanup"}

\* C13: when restore() has returned and the store has settled, removeItem
\* was issued for every id left in the queue, every delete that did not fail
\* removed its record, and every delete that failed has a warning of its own.
CleanupIsolated ==
    (pc = "done" /\ pendingOps = <<>>) =>
        /\ Range(ids) \subseteq removeIssued
        /\ \A id \in Range(ids) \ cleanupFailed : id \notin DOMAIN storage
        /\ Cardinality(CleanupWarnings) = Cardinality(cleanupFailed)

\* The same without the individual logging: the deletes are all issued and
\* those that do not fail remove their records.
CleanupIssuedForAll ==
    (pc = "done" /\ pendingOps = <<>>) =>
        /\ Range(ids) \subseteq removeIssued
        /\ \A id \in Range(ids) \ cleanupFailed : id \notin DOMAIN storage
        /\ Cardinality(CleanupWarnings) <= 1

\* restore() is between its first and its last await on a record.
RestoreRunning == pc \in {"getItem", "backoff"}

\* The ids restore() still has to process: its queue and, during the wait
\* after a failed attempt, the id it is about to push back.
RestoreQueue == Range(ids) \cup (IF pc = "backoff" THEN {current} ELSE {})

\* C14: while restore() runs, the store applies no write or delete of a live
\* event to the record of an id in the restore queue, and the cleanup issues
\* no removeItem for the record of an instance that is live in the registry.
NoRestoreRace ==
    /\ [][(/\ RestoreRunning
            /\ pendingOps # <<>>
            /\ pendingOps' = Tail(pendingOps))
              => Head(pendingOps).id \notin RestoreQueue]_vars
    /\ [][\A id \in removeIssued' \ removeIssued : id \notin instances']_vars

\* A step that issues a store operation: it is appended to the pending ones.
IssuedStep == Len(pendingOps') = Len(pendingOps) + 1

\* C15: an update write is issued only for an id whose creation record write
\* was issued before, and an update listener exists only for such an id.
WriteOrdering ==
    /\ [][(IssuedStep /\ pendingOps'[Len(pendingOps')].origin = "update")
            => pendingOps'[Len(pendingOps')].id \in createIssued]_vars
    /\ [](\A l \in updateListeners : l.id \in createIssued)

\* C15 witness: the creation write and an update write of the same instance
\* are pending, in this order.
UpdateBehindCreate ==
    /\ Len(pendingOps) = 2
    /\ pendingOps[1].origin = "create"
    /\ pendingOps[2].origin = "update"
    /\ pendingOps[1].id = pendingOps[2].id

\* A step in which the store settles its oldest operation.
SettledStep == pendingOps # <<>> /\ pendingOps' = Tail(pendingOps)

\* C17: a getter fails exactly for the names that are none of power, gas and
\* water, returns the stored value of the channel for these three, and leaves
\* the values and the running flag as they were.
UnknownChannelRejected ==
    /\ [][energyResult' # energyResult =>
            /\ UNCHANGED <<liveValues, aggregatedValues, running>>
            /\ IF energyResult'.arg \in MediaTypes
               THEN /\ energyResult'.kind = "value"
                    /\ energyResult'.value =
                          IF energyResult'.call = "getLiveValue"
                          THEN liveValues[energyResult'.arg]
                          ELSE aggregatedValues[energyResult'.arg]
               ELSE energyResult'.kind = "error"]_vars

\* The same for the names that are no inherited property of an object.
UnknownChannelRejectedOwnNames ==
    /\ [][(energyResult' # energyResult
             /\ energyResult'.arg \notin ObjectPrototypeKeys) =>
            /\ UNCHANGED <<liveValues, aggregatedValues, running>>
            /\ IF energyResult'.arg \in MediaTypes
               THEN /\ energyResult'.kind = "value"
                    /\ energyResult'.value =
                          IF energyResult'.call = "getLiveValue"
                          THEN liveValues[energyResult'.arg]
                          ELSE aggregatedValues[energyResult'.arg]
               ELSE energyResult'.kind = "error"]_vars

\* C18: the created handler attaches an update listener exactly for an
\* instance with an on method, under the id and className of the event; an
\* update(data) of such an instance issues the write of the record
\* { className, args: [data] } under that id, and the write that lands
\* overwrites the record of the id with it; no other update write exists.
UpdatePersisted ==
    /\ [][\A id \in instances' \ instances :
           \A cn \in EventClasses, a \in EventArgs :
              Created(id, cn, a) =>
                  updateListeners' =
                      updateListeners
                        \cup (IF HasOn(cn)
                              THEN {[id |-> id, className |-> cn]}
                              ELSE {})]_vars
    /\ [][IssuedStep =>
           \A l \in updateListeners, data \in UpdateData :
              Updated(l, data) =>
                  /\ IssuedStep
                  /\ pendingOps'[Len(pendingOps')] =
                        [op |-> "setItem", id |-> l.id, origin |-> "update",
                         value |-> [className |-> l.className,
                                    args |-> <<data>>]]]_vars
    /\ [][(/\ SettledStep
            /\ Head(pendingOps).origin = "update"
            /\ storage' # storage)
              => /\ storage'[Head(pendingOps).id] = Head(pendingOps).value
                 /\ Len(storage'[Head(pendingOps).id].args) = 1
                 /\ DOMAIN storage' = DOMAIN storage \cup {Head(pendingOps).id}]_vars
    /\ [](\A i \in 1..Len(pendingOps) :
              pendingOps[i].origin = "update" =>
                  /\ HasOn(pendingOps[i].value.className)
                  /\ [id |-> pendingOps[i].id,
                      className |-> pendingOps[i].value.className]
                        \in updateListeners)

\* C18 witness: the store has settled; the record of the emitter 1 holds
\* the update payload as its only argument under the class of its creation,
\* and the record of instance 2, which has no on method, is as created.
UpdateOverwrote ==
    /\ pendingOps = <<>>
    /\ instances = {1, 2}
    /\ updateListeners = {[id |-> 1, className |-> "Emitter"]}
    /\ DOMAIN storage = {1, 2}
    /\ storage[1] = [className |-> "Emitter", args |-> <<"d1">>]
    /\ storage[2] = [className |-> "SiloSimulator", args |-> <<"a1">>]
    /\ warnings = {}

\* The steps of the shortest and of the longest emptying duration that lie
\* within 10% of baseTimeToEmpty: capacity * interval / (base * 0.9) and
\* capacity * interval / (base * 1.1).
StepDownInRange ==
    /\ RLeq(Rat(capacity * Interval * 10, baseTimeToEmpty * 11), stepDown)
    /\ RLeq(stepDown, Rat(capacity * Interval * 10, baseTimeToEmpty * 9))

\* C19: stepDown changes only on the tick from refilling to emptying, where
\* it is drawn anew; every value it takes stands for an emptying duration
\* within 10% of baseTimeToEmpty; stepUp, capacity and baseTimeToEmpty never
\* change.
SiloStepFrame ==
    /\ [][stepDown' # stepDown =>
            (mode = "refilling" /\ mode' = "emptying" /\ siloOp' = "tick")]_vars
    /\ [][(mode = "refilling" /\ mode' = "emptying") =>
            \E r \in SiloRandomMilli :
                stepDown' = RandomEmptyingStep(capacity, baseTimeToEmpty, r)]_vars
    /\ [](siloOp # "none" => StepDownInRange)
    /\ [][UNCHANGED <<stepUp, capacity, baseTimeToEmpty>>]_vars

\* C19 witness: the tick that ended a refilling phase drew the step of the
\* shortest emptying duration for the default silo.
SiloStepRedrawn ==
    /\ siloOp = "tick"
    /\ mode = "emptying"
    /\ level = RInt(capacity)
    /\ capacity = 100
    /\ stepDown = RandomEmptyingStep(capacity, baseTimeToEmpty, 0)

\* C20, the steps: after an attempt that recreated nothing the record is at
\* the tail of the queue and the next is taken; a record is recreated only when it is not live yet; no
\* record leaves the store.
UnboundedRestoreStep ==
    /\ (pc = "getItem" /\ instances' = instances /\ pendingOps' = pendingOps)
          => <<current'>> \o ids' = Append(ids, current)
    /\ instances' # instances =>
          (current \notin instances /\ instances' = instances \cup {current})
    /\ DOMAIN storage \subseteq DOMAIN storage'

\* C20, the states: restore() has returned exactly when every record of the
\* key snapshot is recreated, which never happens with a broken record; a
\* recreated id is never queued again; no removeItem is ever issued.
UnboundedRestoreState ==
    /\ pc = "done" <=>
          (pc \notin {"idle", "keys"} /\ Range(snapshot) \subseteq instances)
    /\ brokenIds # {} => pc # "done"
    /\ Range(ids) \cap instances = {}
    /\ removeIssued = {}
    /\ \A i \in 1..Len(pendingOps) : pendingOps[i].op # "removeItem"

\* C20: the restore() without ceiling retries a failing record from the
\* tail for ever and removes nothing; it returns exactly when every record
\* is recreated; with a broken record it keeps attempting that record, while
\* every other record is recreated, once.
UnboundedRestore ==
    /\ [][UnboundedRestoreStep]_vars
    /\ []UnboundedRestoreState
    /\ (brokenIds # {}) ~> (pc = "getItem" /\ current \in brokenIds)
    /\ \A id \in 1..(MaxUnboundedRecords + 1) :
          (id \in Range(snapshot) /\ id \notin brokenIds) ~> (id \in instances)
    /\ (brokenIds = {}) ~> (pc = "done")

\* C20 witness: with record 2 broken, records 1 and 3 are recreated and
\* persisted, and the loop is at an attempt on 2 beyond the tenth.
UnboundedLoopRuns ==
    /\ brokenIds = {2}
    /\ instances = {1, 3}
    /\ attempts > TrialCeiling
    /\ pc = "getItem"
    /\ current = 2
    /\ pendingOps = <<>>
    /\ DOMAIN storage = {1, 2, 3}

====
